---- MODULE Spec2Model ----
(***************************************************************************)
(* Model of rosdistro-sync-bot (src/main.rs): main reads five environment  *)
(* values, fetches the sync-status document, folds it into a map from      *)
(* distro name to hold flag, lists the open issues of the repository and   *)
(* adds or removes the "in_sync_hold" label on each issue.                 *)
(***************************************************************************)
EXTENDS Integers, Sequences, FiniteSets, TLC

\* ---------------------------------------------------------------- bounds
MaxRecords == 3      \* records in the status document
MaxIssues  == 3      \* open issues in the listing
MaxLabels  == 4      \* labels in the listing, over all its issues
MaxRuns    == 2      \* invocations of the process in a row

SYNC_HOLD_LABEL == "in_sync_hold"

DistroNames == {"focal", "jammy"}
LabelNames  == DistroNames \cup {SYNC_HOLD_LABEL}

\* The five values main reads, in the order it reads them.
RequiredVarsNoToken ==
    << "GITHUB_REPO_ORG", "GITHUB_REPO_NAME", "GITHUB_REPO_BRANCH_NAME",
       "GITHUB_REPO_PATH_TO_SYNC_STATUS" >>
RequiredVars ==
    << "GITHUB_REPO_ORG", "GITHUB_REPO_NAME", "GITHUB_REPO_BRANCH_NAME",
       "GITHUB_REPO_PATH_TO_SYNC_STATUS", "GITHUB_PERSONAL_ACCESS_TOKEN" >>

EnvNames == { "GITHUB_REPO_ORG", "GITHUB_REPO_NAME", "GITHUB_REPO_BRANCH_NAME",
              "GITHUB_REPO_PATH_TO_SYNC_STATUS", "GITHUB_PERSONAL_ACCESS_TOKEN" }

\* ---------------------------------------------------------------- helpers
Range(s) == { s[i] : i \in DOMAIN s }

SeqsUpTo(S, n) == UNION { [1..k -> S] : k \in 0..n }

\* struct SyncStatus
SyncStatus == [distro : DistroNames, in_sync_hold : BOOLEAN]

Documents  == SeqsUpTo(SyncStatus, MaxRecords)

\* The listings of exactly k issues that carry at most n labels in all.
RECURSIVE ListingsOf(_, _)
ListingsOf(k, n) ==
    IF k = 0 THEN { << >> }
    ELSE UNION { { << h >> \o t : t \in ListingsOf(k - 1, n - Len(h)) } :
                 h \in SeqsUpTo(LabelNames, n) }

Listings == UNION { ListingsOf(k, MaxLabels) : k \in 0..MaxIssues }

EmptyMap == [d \in {} |-> TRUE]

\* HashMap::insert: the value of an existing key is replaced.
HashMapInsertKeepFirst(m, k, v) ==
    [x \in DOMAIN m \cup {k} |-> IF x \in DOMAIN m THEN m[x] ELSE v]
HashMapInsert(m, k, v) ==
    [x \in DOMAIN m \cup {k} |-> IF x = k THEN v ELSE m[x]]

RECURSIVE FoldStatuses(_, _, _)
FoldStatuses(ss, i, m) ==
    IF i > Len(ss) THEN m
    ELSE FoldStatuses(ss, i + 1, HashMapInsert(m, ss[i].distro, ss[i].in_sync_hold))

sync_statuses_to_hashmap(ss) == FoldStatuses(ss, 1, EmptyMap)

\* env::var(..).expect(..) in turn: the index of the first value that is
\* absent, 0 when all are present.
RECURSIVE FirstMissingFrom(_, _)
FirstMissingFrom(e, i) ==
    IF i > Len(RequiredVars) THEN 0
    ELSE IF RequiredVars[i] \notin e THEN i
    ELSE FirstMissingFrom(e, i + 1)

FirstMissing(e) == FirstMissingFrom(e, 1)

\* The orders in which HashMap::keys() may yield the keys of m.
KeyOrders(m) ==
    { s \in [1..Cardinality(DOMAIN m) -> DOMAIN m] : Range(s) = DOMAIN m }

\* distros.iter().find(|distro| labels.contains(distro)): the index in ds of
\* the first key that is among the labels, 0 when there is none.
RECURSIVE FindDistroFrom(_, _, _)
FindDistroFrom(ds, labels, i) ==
    IF i > Len(ds) THEN 0
    ELSE IF ds[i] \in Range(labels) THEN i
    ELSE FindDistroFrom(ds, labels, i + 1)

FindDistro(ds, labels) == FindDistroFrom(ds, labels, 1)

\* labels.iter().any(|label| label == SYNC_HOLD_LABEL)
IsLabeled(labels) == \E i \in DOMAIN labels : labels[i] = SYNC_HOLD_LABEL

\* labels.iter().position(|label| label == SYNC_HOLD_LABEL), 1-based; 0 is None.
RECURSIVE PositionFrom(_, _)
PositionFrom(labels, i) ==
    IF i > Len(labels) THEN 0
    ELSE IF labels[i] = SYNC_HOLD_LABEL THEN i
    ELSE PositionFrom(labels, i + 1)

PositionLast(labels) ==
    IF IsLabeled(labels)
    THEN CHOOSE i \in DOMAIN labels :
            /\ labels[i] = SYNC_HOLD_LABEL
            /\ \A j \in DOMAIN labels : labels[j] = SYNC_HOLD_LABEL => j <= i
    ELSE 0
Position(labels) == PositionFrom(labels, 1)

\* Vec::remove(p)
VecRemove(labels, p) ==
    [i \in 1..(Len(labels) - 1) |-> IF i < p THEN labels[i] ELSE labels[i + 1]]

\* Vec::push
VecPush(labels, l) == Append(labels, l)

\* The if / else-if chain of the loop body.
DecideNoElse(is_in_sync, is_labeled) ==
    IF is_in_sync /\ is_labeled THEN "none"
    ELSE IF is_in_sync /\ ~is_labeled THEN "add"
    ELSE IF ~is_in_sync /\ is_labeled THEN "remove"
    ELSE "unreachable"
DecideAlwaysAct(is_in_sync, is_labeled) ==
    IF is_in_sync THEN "add"
    ELSE IF is_labeled THEN "remove"
    ELSE "none"
Decide(is_in_sync, is_labeled) ==
    IF is_in_sync = is_labeled THEN "none"
    ELSE IF is_in_sync /\ ~is_labeled THEN "add"
    ELSE IF ~is_in_sync /\ is_labeled THEN "remove"
    ELSE "unreachable"

\* .expect("distro not found in labels") on None: the process dies.
NoDistroSkip(labels) ==
    [panic |-> "", distro |-> "", action |-> "none", labels |-> labels]
NoDistro(labels) ==
    [panic |-> "distro not found in labels", distro |-> "", action |-> "none",
     labels |-> labels]

\* .expect("Updating issue failed") on the result of the update call: where
\* the process goes next.
AfterUpdateIgnoreError(ok) == "loop"
AfterUpdate(ok) == IF ok THEN "loop" ELSE "aborted"

\* What one iteration of the loop does with an issue's labels, up to the
\* update call: the distro found, the branch taken, the list to submit and
\* the panic message, if any.
IssueStep(m, ds, labels) ==
    LET f == FindDistro(ds, labels) IN
    IF f = 0
    THEN NoDistro(labels)
    ELSE
      LET d    == ds[f]
          sync == m[d]
          lab  == IsLabeled(labels)
          act  == Decide(sync, lab)
          p    == Position(labels)
      IN  IF act = "none"
          THEN [panic |-> "", distro |-> d, action |-> act, labels |-> labels]
          ELSE IF act = "add"
          THEN [panic |-> "", distro |-> d, action |-> act,
                labels |-> VecPush(labels, SYNC_HOLD_LABEL)]
          ELSE IF act = "remove"
          THEN IF p = 0
               THEN [panic |-> "SYNC_HOLD_LABEL not found in labels", distro |-> d,
                     action |-> act, labels |-> labels]
               ELSE [panic |-> "", distro |-> d, action |-> act,
                     labels |-> VecRemove(labels, p)]
          ELSE [panic |-> "This should never happen", distro |-> d, action |-> act,
                labels |-> labels]

\* ---------------------------------------------------------------- state
VARIABLES
    pc,             \* where the process is: start, fetch, list, loop, done, aborted
    run,            \* which invocation of the process this is
    env,            \* the environment values that are defined
    sync_statuses,  \* the records handed to sync_statuses_to_hashmap (SpecFold)
    M,              \* distro_to_sync_status
    distros,        \* the keys of M in the order the map yields them
    issues,         \* the listing of open issues (their label lists) of this run
    idx,            \* the issue the loop is at (1-based)
    chosen,         \* per issue examined in this run, the distro found for it
    repo,           \* the tracker's label list of each issue
    calls,          \* the label-update calls of this run, in order
    net,            \* the kinds of network request made in this run
    panic           \* the message the process died with, "" while alive

vars == << pc, run, env, sync_statuses, M, distros, issues, idx, chosen, repo,
           calls, net, panic >>

Init ==
    /\ pc = "start"
    /\ run = 1
    /\ env \in SUBSET EnvNames
    /\ sync_statuses = << >>
    /\ M = EmptyMap
    /\ distros = << >>
    /\ issues = << >>
    /\ idx = 1
    /\ chosen = << >>
    /\ repo = << >>
    /\ calls = << >>
    /\ net = {}
    /\ panic = ""

\* main, up to the call of get_rosdisto_to_sync_status.
ReadEnv ==
    /\ pc = "start"
    /\ LET i == FirstMissing(env) IN
         IF i = 0
         THEN /\ pc' = "fetch"
              /\ panic' = ""
         ELSE /\ pc' = "aborted"
              /\ panic' = RequiredVars[i]
    /\ UNCHANGED << run, env, sync_statuses, M, distros, issues, idx, chosen, repo,
                    calls, net >>

\* The expect messages of get_rosdisto_to_sync_status: the request fails,
\* the body is not UTF-8, the body does not parse as a list of records.
FetchPanics ==
    { "request to get sync status YAML failed",
      "request didn't return valid UTF-8",
      "Unable to parse sync status YAML" }

\* The expect messages of run before its loop: the client is not built (no
\* request is made), the first page fails, a later page fails.
ClientPanic == "Creating octocrab instance failed"
ListPanics  == { "Getting page of issues failed", "Getting issues failed" }

\* get_rosdisto_to_sync_status: the request, the parse and the fold. The
\* parsed records are a local of the function; the map is what it returns.
\* In a later invocation the document yields the map of the first one.
FetchStatus ==
    /\ pc = "fetch"
    /\ net' = net \cup {"fetch"}
    /\ \E r \in {""} \cup FetchPanics :
         IF r = ""
         THEN \E doc \in Documents :
                /\ run > 1 => sync_statuses_to_hashmap(doc) = M
                /\ M' = sync_statuses_to_hashmap(doc)
                /\ pc' = "list"
                /\ panic' = ""
         ELSE /\ pc' = "aborted"
              /\ panic' = r
              /\ UNCHANGED M
    /\ UNCHANGED << run, env, sync_statuses, distros, issues, idx, chosen, repo, calls >>

\* run, up to the loop: the client, the listing of the open issues and the
\* key order. The first invocation finds the tracker in any state; a later
\* one finds it as the earlier one left it.
ListIssues ==
    /\ pc = "list"
    /\ \E r \in {"", ClientPanic} \cup ListPanics :
         IF r = ""
         THEN /\ \E l \in (IF run > 1 THEN {repo} ELSE Listings) :
                   /\ repo' = l
                   /\ issues' = l
              /\ \E ds \in KeyOrders(M) : distros' = ds
              /\ net' = net \cup {"list"}
              /\ pc' = "loop"
              /\ panic' = ""
         ELSE /\ pc' = "aborted"
              /\ panic' = r
              /\ net' = IF r = ClientPanic THEN net ELSE net \cup {"list"}
              /\ UNCHANGED << repo, issues, distros >>
    /\ idx' = 1
    /\ UNCHANGED << run, env, sync_statuses, M, chosen, calls >>

\* One iteration of the loop over the issues. An update call that succeeds
\* replaces the tracker's labels of the issue; one that fails may or may not
\* have done so.
ProcessIssue ==
    /\ pc = "loop"
    /\ idx <= Len(issues)
    /\ LET s == IssueStep(M, distros, issues[idx]) IN
         IF s.panic # ""
         THEN /\ pc' = "aborted"
              /\ panic' = s.panic
              /\ UNCHANGED << idx, chosen, repo, calls, net >>
         ELSE IF s.action = "none"
         THEN /\ idx' = idx + 1
              /\ chosen' = Append(chosen, s.distro)
              /\ UNCHANGED << pc, panic, repo, calls, net >>
         ELSE /\ net' = net \cup {"update"}
              /\ chosen' = Append(chosen, s.distro)
              /\ \E ok \in BOOLEAN :
                   /\ calls' = Append(calls, [issue |-> idx, labels |-> s.labels, ok |-> ok])
                   /\ \E applied \in BOOLEAN :
                        /\ ok => applied
                        /\ repo' = IF applied THEN [repo EXCEPT ![idx] = s.labels]
                                   ELSE repo
                   /\ pc' = AfterUpdate(ok)
                   /\ panic' = IF pc' = "aborted" THEN "Updating issue failed" ELSE ""
                   /\ idx' = IF pc' = "aborted" THEN idx ELSE idx + 1
    /\ UNCHANGED << run, env, sync_statuses, M, distros, issues >>

\* The loop is over: run and main return.
Return ==
    /\ pc = "loop"
    /\ idx > Len(issues)
    /\ pc' = "done"
    /\ UNCHANGED << run, env, sync_statuses, M, distros, issues, idx, chosen, repo,
                    calls, net, panic >>

\* The process is started again after it ran to completion, with the same
\* environment and with nothing else touching the document or the issues.
Restart ==
    /\ pc = "done"
    /\ run < MaxRuns
    /\ run' = run + 1
    /\ pc' = "start"
    /\ distros' = << >>
    /\ issues' = << >>
    /\ idx' = 1
    /\ chosen' = << >>
    /\ calls' = << >>
    /\ net' = {}
    /\ UNCHANGED << env, sync_statuses, M, repo, panic >>

Next ==
    \/ ReadEnv
    \/ FetchStatus
    \/ ListIssues
    \/ ProcessIssue
    \/ Return
    \/ Restart

Spec == Init /\ [][Next]_vars

\* ------------------------------------------- sync_statuses_to_hashmap alone
InitFold ==
    /\ pc = "fold"
    /\ run = 1
    /\ env = EnvNames
    /\ sync_statuses \in Documents
    /\ M = EmptyMap
    /\ distros = << >>
    /\ issues = << >>
    /\ idx = 1
    /\ chosen = << >>
    /\ repo = << >>
    /\ calls = << >>
    /\ net = {}
    /\ panic = ""

Fold ==
    /\ pc = "fold"
    /\ M' = sync_statuses_to_hashmap(sync_statuses)
    /\ pc' = "folded"
    /\ UNCHANGED << run, env, sync_statuses, distros, issues, idx, chosen, repo,
                    calls, net, panic >>

NextFold == Fold

SpecFold == InitFold /\ [][NextFold]_vars

\* ---------------------------------------------------------------- claims
HasHold(l) == SYNC_HOLD_LABEL \in Range(l)

\* The labels of an issue that are keys of the StatusMap.
KeysIn(l) == DOMAIN M \cap Range(l)

\* The issues the loop of this run has passed without dying.
Passed == IF pc \in {"loop", "done"} THEN 1..(idx - 1) ELSE {}

CallsFor(i) == { k \in DOMAIN calls : calls[k].issue = i }

\* n is o with one "in_sync_hold" appended at the end.
AppendedHold(o, n) ==
    /\ Len(n) = Len(o) + 1
    /\ n[Len(n)] = SYNC_HOLD_LABEL
    /\ \A q \in DOMAIN o : n[q] = o[q]

\* n is o with only its first "in_sync_hold" deleted.
FirstHoldDeleted(o, n) ==
    \E p \in DOMAIN o :
        /\ o[p] = SYNC_HOLD_LABEL
        /\ \A q \in 1..(p - 1) : o[q] # SYNC_HOLD_LABEL
        /\ n = SubSeq(o, 1, p - 1) \o SubSeq(o, p + 1, Len(o))

\* C1: every issue the reconciler has passed, and that carries one key of the
\* StatusMap, ends up with "in_sync_hold" among its labels exactly when the
\* StatusMap holds true for that key.
C1_HoldIffInSync ==
    \A i \in Passed :
        Cardinality(KeysIn(issues[i])) = 1 =>
            LET d == CHOOSE k \in KeysIn(issues[i]) : TRUE
            IN  HasHold(repo[i]) <=> M[d]

\* C2: a run that follows a completed run, with the same StatusMap and the
\* issues as that run left them, issues no label-update call.
C2_SecondRunNoCalls == run > 1 => calls = << >>

\* C3: an issue whose hold-label state already equals the StatusMap's value
\* for its distro gets no update call and keeps its label list.
C3_NoOpPreserved ==
    \A i \in DOMAIN chosen :
        (HasHold(issues[i]) <=> M[chosen[i]]) =>
            /\ CallsFor(i) = {}
            /\ repo[i] = issues[i]

C3_Witness ==
    /\ pc = "done"
    /\ calls # << >>
    /\ \E i \in DOMAIN chosen :
          /\ HasHold(issues[i]) <=> M[chosen[i]]
          /\ HasHold(issues[i])
          /\ CallsFor(i) = {}

\* C4: an issue none of whose labels is a key of the StatusMap kills the run
\* at that issue: it is never passed over, it gets no update call, and no
\* later issue of the listing is examined or updated.
C4_MissingDistroFatal ==
    /\ \A i \in DOMAIN chosen : KeysIn(issues[i]) # {}
    /\ pc = "done" => \A i \in DOMAIN issues : KeysIn(issues[i]) # {}
    /\ panic = "distro not found in labels" =>
          /\ pc = "aborted"
          /\ idx \in DOMAIN issues
          /\ KeysIn(issues[idx]) = {}
          /\ Len(chosen) = idx - 1
          /\ \A k \in DOMAIN calls : calls[k].issue < idx
          /\ \A j \in idx..Len(issues) : repo[j] = issues[j]
    /\ (pc = "aborted" /\ idx \in DOMAIN issues /\ KeysIn(issues[idx]) = {}) =>
          panic = "distro not found in labels"

C4_Witness ==
    /\ panic = "distro not found in labels"
    /\ \E j \in DOMAIN issues :
          /\ j > idx
          /\ \E k \in KeysIn(issues[j]) : M[k] /\ ~HasHold(issues[j])

\* C5: no update call is issued for an issue that carries two or more keys
\* of the StatusMap; stated for keys whose hold flags differ, where the key
\* picked decides the update.
C5_NoUpdateOnAmbiguousDistro ==
    \A k \in DOMAIN calls :
        \A k1, k2 \in KeysIn(issues[calls[k].issue]) : M[k1] = M[k2]

\* C6: the map built from a sequence of records has exactly the distro names
\* of the sequence as keys, and each key maps to the flag of the last record
\* with that name.
C6_LastWriteWins ==
    pc = "folded" =>
        /\ DOMAIN M = { sync_statuses[i].distro : i \in DOMAIN sync_statuses }
        /\ \A k \in DOMAIN M :
              \E i \in DOMAIN sync_statuses :
                  /\ sync_statuses[i].distro = k
                  /\ sync_statuses[i].in_sync_hold = M[k]
                  /\ \A j \in (i + 1)..Len(sync_statuses) : sync_statuses[j].distro # k

C6_Witness ==
    /\ pc = "folded"
    /\ \E i, j \in DOMAIN sync_statuses :
          /\ i < j
          /\ sync_statuses[i].distro = sync_statuses[j].distro
          /\ sync_statuses[i].in_sync_hold
          /\ ~sync_statuses[j].in_sync_hold
          /\ ~M[sync_statuses[j].distro]

\* C7: a failed update call ends the run: it is the last call of the run, no
\* issue after it is updated, and every update sent before it stays applied.
C7_UpdateFailureAborts ==
    /\ \A k \in DOMAIN calls : ~calls[k].ok => (k = Len(calls) /\ pc = "aborted")
    /\ panic = "Updating issue failed" =>
          /\ pc = "aborted"
          /\ calls # << >>
          /\ ~calls[Len(calls)].ok
          /\ calls[Len(calls)].issue = idx
          /\ \A k \in 1..(Len(calls) - 1) :
                /\ calls[k].issue < idx
                /\ repo[calls[k].issue] = calls[k].labels
          /\ \A j \in (idx + 1)..Len(issues) : repo[j] = issues[j]

C7_Witness ==
    /\ panic = "Updating issue failed"
    /\ Len(calls) = 2
    /\ repo[calls[1].issue] # issues[calls[1].issue]
    /\ \E j \in DOMAIN issues :
          /\ j > idx
          /\ \E k \in KeysIn(issues[j]) : M[k] /\ ~HasHold(issues[j])

\* C8: when one of the five configuration values is absent, the process dies
\* before any network request: no fetch, no listing, no update call.
C8_MissingConfigNoNetwork ==
    env # EnvNames =>
        /\ net = {}
        /\ calls = << >>
        /\ pc \in {"start", "aborted"}
        /\ pc = "aborted" => panic \in EnvNames \ env

C8_Witness ==
    /\ pc = "aborted"
    /\ env = EnvNames \ {"GITHUB_PERSONAL_ACCESS_TOKEN"}
    /\ panic = "GITHUB_PERSONAL_ACCESS_TOKEN"

\* C9: for every issue the loop reaches, the decision is one of no action,
\* add and remove; the unreachable branch is never taken and the position of
\* "in_sync_hold" is always found in the remove branch.
C9_DecisionTotal ==
    /\ panic \notin {"This should never happen", "SYNC_HOLD_LABEL not found in labels"}
    /\ (pc = "loop" /\ idx \in DOMAIN issues) =>
          LET s == IssueStep(M, distros, issues[idx])
          IN  /\ s.action \in {"none", "add", "remove"}
              /\ s.panic \in {"", "distro not found in labels"}

C9_Witness ==
    /\ pc = "done"
    /\ \E k \in DOMAIN calls : Len(calls[k].labels) < Len(issues[calls[k].issue])
    /\ \E i \in DOMAIN chosen : ~M[chosen[i]] /\ ~HasHold(issues[i])

\* C10: the list an update call submits is the issue's listed label sequence
\* with one "in_sync_hold" appended at the end, or with only its first
\* "in_sync_hold" deleted, and no issue gets two update calls in a run.
C10_OneElementChanged ==
    /\ \A k \in DOMAIN calls :
          LET o == issues[calls[k].issue]
              n == calls[k].labels
          IN  \/ ~HasHold(o) /\ AppendedHold(o, n)
              \/ FirstHoldDeleted(o, n)
    /\ \A k1, k2 \in DOMAIN calls : calls[k1].issue = calls[k2].issue => k1 = k2

C10_Witness ==
    /\ \E k \in DOMAIN calls :
          /\ FirstHoldDeleted(issues[calls[k].issue], calls[k].labels)
          /\ HasHold(calls[k].labels)
          /\ calls[k].labels[1] # SYNC_HOLD_LABEL
          /\ issues[calls[k].issue][1] = SYNC_HOLD_LABEL
    /\ \E k \in DOMAIN calls : AppendedHold(issues[calls[k].issue], calls[k].labels)

====
